---- MODULE Spec2Model ----
(***************************************************************************)
(* StencilApp (Chapter 11 Stenciling / StencilDemo): the frame loop        *)
(* (Update, Draw), the ring of frame resources gated by the GPU fence,     *)
(* the render items with their dirty counters, the mirror composition of   *)
(* the reflected skulls and the command sequence recorded by Draw.         *)
(*                                                                         *)
(* Lengths are whole scene units.  A matrix of the form                    *)
(* B * diag(c) + translation t is the record [b, c, t, ...] where b names  *)
(* the linear part it was built from ("I" identity, "S" the 0.45 scaling,  *)
(* "RS" rotation about y times the 0.45 scaling), c scales the columns     *)
(* and t is the fourth row (_41, _42, _43).                                *)
(***************************************************************************)
EXTENDS Integers, Sequences, FiniteSets, TLC

\* ------------------------------------------------------------------ bounds
\* Frames are submitted until the fence counter reaches this value.
MaxFence == 5
\* A skull is kept within this many units of its starting translation.
MaxOffset == 2
\* Elapsed times of one frame, in seconds.
DeltaTimes == {1}
\* Depth values run from 0 (nearest) to this value, the far plane.
MaxDepth == 3
\* The azimuth of the camera is followed from 0 up to this many units of
\* pi/72000 (2.5 pi).
MaxTheta == 180000
\* The mirror composition taken on its own is applied to translations within
\* this many units of the room's centre on every axis.
MaxProbe == 5

\* --------------------------------------------------------------- constants
gNumFrameResources == 3

Slots == 0 .. (gNumFrameResources - 1)

\* mCurrFrameResource before the first Update.
nullptr == -1

\* enum class ReflectionSide, in declaration order.
ReflectionSide == <<"Front", "Back", "Left", "Right", "Top", "Bottom">>

Sides == {ReflectionSide[j] : j \in 1 .. Len(ReflectionSide)}

\* enum class RenderLayer (Count excluded).
RenderLayer ==
  {"Opaque", "MirrorsTop", "MirrorsBottom", "MirrorsRight", "MirrorsLeft",
   "MirrorsFront", "MirrorsBack", "ReflectedTop", "ReflectedBottom",
   "ReflectedRight", "ReflectedLeft", "ReflectedFront", "ReflectedBack",
   "Transparent", "Shadow"}

MirrorsLayer(side) == "Mirrors" \o side

ReflectedLayer(side) == "Reflected" \o side

\* ------------------------------------------------------------ render items
\* mSkulls, by index.
mSkulls == <<"skull", "skull2">>

SkullIndices == 0 .. (Len(mSkulls) - 1)

ReflectedNames ==
  [side \in Sides |-> [k \in SkullIndices |-> "reflected" \o side \o mSkulls[k + 1]]]

\* mReflectedSkulls[side][k]
mReflectedSkulls(side, k) == ReflectedNames[side][k]

mShadowedSkullRitem == "shadowedSkull"

MirrorItem(side) == "mirror" \o side

\* The items LoadReflectedItems creates for one skull, in creation order.
LoadReflectedItems(k) ==
  << mReflectedSkulls("Front", k), mReflectedSkulls("Back", k),
     mReflectedSkulls("Left", k), mReflectedSkulls("Right", k),
     mReflectedSkulls("Top", k), mReflectedSkulls("Bottom", k) >>

\* The order in which BuildRenderItems hands out objCBIndex++.
CreationOrder ==
  <<"floor", "walls", "skull">> \o LoadReflectedItems(0) \o <<"skull2">>
    \o LoadReflectedItems(1) \o <<mShadowedSkullRitem>>
    \o << MirrorItem("Front"), MirrorItem("Top"), MirrorItem("Left"),
          MirrorItem("Right"), MirrorItem("Back"), MirrorItem("Bottom") >>

\* mAllRitems, in push_back order.
mAllRitems ==
  LoadReflectedItems(0) \o LoadReflectedItems(1)
    \o <<"floor", "walls", "skull", "skull2", mShadowedSkullRitem>>
    \o << MirrorItem("Front"), MirrorItem("Top"), MirrorItem("Left"),
          MirrorItem("Right"), MirrorItem("Back"), MirrorItem("Bottom") >>

Items == {mAllRitems[n] : n \in 1 .. Len(mAllRitems)}

\* objCBIndex++ leaving the counter where it was.
PostIncrementStuck(n) == n

\* objCBIndex++ and (*renderItemCount)++: the counter after one item took
\* its value.
PostIncrement(n) == n + 1

\* ObjCBIndex of every item once the items from position n of the creation
\* order on have each taken the counter's value.
RECURSIVE AssignObjCBIndex(_, _, _)
AssignObjCBIndex(idx, n, objCBIndex) ==
  IF n > Len(CreationOrder) THEN idx
  ELSE AssignObjCBIndex([idx EXCEPT ![CreationOrder[n]] = objCBIndex], n + 1,
                        PostIncrement(objCBIndex))

\* The indices handed out from 1 on.
BuiltObjCBIndexFromOne == AssignObjCBIndex([i \in Items |-> 0], 1, 1)

\* RenderItem::ObjCBIndex as BuildRenderItems leaves it (int objCBIndex = 0).
BuiltObjCBIndex == AssignObjCBIndex([i \in Items |-> 0], 1, 0)

\* MeshGeometry names BuildRoomGeometry and BuildSkullGeometry store.
Meshes == {"roomGeo", "skullGeo"}

\* The mesh BuildRenderItems looks up for every item; copies take their
\* skull's.
MeshOf ==
  [i \in Items |->
     IF i \in {"floor", "walls"} \cup {MirrorItem(s) : s \in Sides}
       THEN "roomGeo" ELSE "skullGeo"]

\* mRitemLayer
mRitemLayer ==
  [l \in RenderLayer |->
     CASE l = "Opaque" -> <<"floor", "walls", "skull", "skull2">>
       [] l = "Shadow" -> <<mShadowedSkullRitem>>
       [] l = "Transparent" ->
            << MirrorItem("Front"), MirrorItem("Top"), MirrorItem("Left"),
               MirrorItem("Right"), MirrorItem("Back"), MirrorItem("Bottom") >>
       [] OTHER ->
            IF \E s \in Sides : l = MirrorsLayer(s)
              THEN <<MirrorItem(CHOOSE s \in Sides : l = MirrorsLayer(s))>>
              ELSE LET s == CHOOSE s \in Sides : l = ReflectedLayer(s)
                   IN  <<mReflectedSkulls(s, 0), mReflectedSkulls(s, 1)>>]

\* mMaterials keys; MatCBIndex by BuildMaterials.
Materials == {"bricks", "checkertile", "icemirror", "skullMat", "shadowMat"}

MatCBIndex ==
  [m \in Materials |->
     CASE m = "bricks" -> 0 [] m = "checkertile" -> 1 [] m = "icemirror" -> 2
       [] m = "skullMat" -> 3 [] m = "shadowMat" -> 4]

\* DiffuseSrvHeapIndex by BuildMaterials.
DiffuseSrvHeapIndex ==
  [m \in Materials |->
     CASE m = "bricks" -> 0 [] m = "checkertile" -> 1 [] m = "icemirror" -> 2
       [] m = "skullMat" -> 3 [] m = "shadowMat" -> 3]

\* srvHeapDesc.NumDescriptors
NumDescriptors == 4

\* The pass count every FrameResource is constructed with.
passCount == 2

\* ---------------------------------------------------------------- matrices
Zero3 == <<0, 0, 0>>

One3 == <<1, 1, 1>>

\* A matrix; proj is TRUE once the shadow projection has been applied, light
\* is the direction it projects along, tr is TRUE for the transposed form.
Matrix(b, c, t) ==
  [b |-> b, c |-> c, t |-> t, proj |-> FALSE, light |-> Zero3, tr |-> FALSE]

Identity4x4 == Matrix("I", One3, Zero3)

XMMatrixTranslation(x, y, z) == Matrix("I", One3, <<x, y, z>>)

\* XMMatrixScaling with every factor in {0, 1}.
XMMatrixScaling(sx, sy, sz) == Matrix("I", <<sx, sy, sz>>, Zero3)

\* XMMatrixReflect for a plane (a, b, c, d) whose normal is a unit axis:
\* I - 2 n n^T, translation -2 d n.
XMMatrixReflect(plane) ==
  Matrix("I",
         << 1 - 2 * plane[1] * plane[1], 1 - 2 * plane[2] * plane[2],
            1 - 2 * plane[3] * plane[3] >>,
         << -2 * plane[4] * plane[1], -2 * plane[4] * plane[2],
            -2 * plane[4] * plane[3] >>)

\* M * N with the translation of M left unscaled.
MatMulUnscaled(M, N) ==
  [M EXCEPT !.c = [a \in 1 .. 3 |-> M.c[a] * N.c[a]],
            !.t = [a \in 1 .. 3 |-> M.t[a] + N.t[a]]]

\* M * N for N with a diagonal linear part: columns and translation are scaled
\* by N.c, then N.t is added.
MatMul(M, N) ==
  [M EXCEPT !.c = [a \in 1 .. 3 |-> M.c[a] * N.c[a]],
            !.t = [a \in 1 .. 3 |-> M.t[a] * N.c[a] + N.t[a]]]

XMMatrixTranspose(M) == [M EXCEPT !.tr = ~M.tr]

\* skullWorld * XMMatrixShadow(shadowPlane, toMainLight) * shadowOffsetY
ShadowWorld(M, toMainLight) == [M EXCEPT !.proj = TRUE, !.light = toMainLight]


\* ------------------------------------------------------ mirror composition
FindMirrorPlane(side) ==
  CASE side = "Top" -> <<0, 1, 0, 0>>
    [] side = "Bottom" -> <<0, 1, 0, 0>>
    [] side = "Back" -> <<0, 0, 1, 0>>
    [] side = "Front" -> <<0, 0, 1, 0>>
    [] side = "Left" -> <<1, 0, 0, 0>>
    [] side = "Right" -> <<1, 0, 0, 0>>

\* FindMirrorOffset with the Back offset of a wall at z = 4.
FindMirrorOffsetNearBack(side) ==
  CASE side = "Top" -> XMMatrixTranslation(0, 8, 0)
    [] side = "Bottom" -> XMMatrixTranslation(0, -8, 0)
    [] side = "Back" -> XMMatrixTranslation(0, 0, 8)
    [] side = "Front" -> XMMatrixTranslation(0, 0, 0)
    [] side = "Left" -> XMMatrixTranslation(-8, 0, 0)
    [] side = "Right" -> XMMatrixTranslation(8, 0, 0)

FindMirrorOffset(side) ==
  CASE side = "Top" -> XMMatrixTranslation(0, 8, 0)
    [] side = "Bottom" -> XMMatrixTranslation(0, -8, 0)
    [] side = "Back" -> XMMatrixTranslation(0, 0, 16)
    [] side = "Front" -> XMMatrixTranslation(0, 0, 0)
    [] side = "Left" -> XMMatrixTranslation(-8, 0, 0)
    [] side = "Right" -> XMMatrixTranslation(8, 0, 0)

\* IsPastMirrorPlane with every comparison made inclusive.
IsPastMirrorPlaneInclusive(w, side) ==
  CASE side = "Top" ->
         IF w.t[2] >= 4 THEN XMMatrixScaling(0, 0, 0) ELSE XMMatrixScaling(1, 1, 1)
    [] side = "Bottom" ->
         IF w.t[2] <= -4 THEN XMMatrixScaling(0, 0, 0) ELSE XMMatrixScaling(1, 1, 1)
    [] side = "Left" ->
         IF w.t[1] <= -4 THEN XMMatrixScaling(0, 0, 0) ELSE XMMatrixScaling(1, 1, 1)
    [] side = "Right" ->
         IF w.t[1] >= 4 THEN XMMatrixScaling(0, 0, 0) ELSE XMMatrixScaling(1, 1, 1)
    [] side = "Front" ->
         IF w.t[3] <= 0 THEN XMMatrixScaling(0, 0, 0) ELSE XMMatrixScaling(1, 1, 1)
    [] side = "Back" ->
         IF w.t[3] >= 8 THEN XMMatrixScaling(0, 0, 0) ELSE XMMatrixScaling(1, 1, 1)

IsPastMirrorPlane(w, side) ==
  CASE side = "Top" ->
         IF w.t[2] > 4 THEN XMMatrixScaling(0, 0, 0) ELSE XMMatrixScaling(1, 1, 1)
    [] side = "Bottom" ->
         IF w.t[2] < -4 THEN XMMatrixScaling(0, 0, 0) ELSE XMMatrixScaling(1, 1, 1)
    [] side = "Left" ->
         IF w.t[1] < -4 THEN XMMatrixScaling(0, 0, 0) ELSE XMMatrixScaling(1, 1, 1)
    [] side = "Right" ->
         IF w.t[1] > 4 THEN XMMatrixScaling(0, 0, 0) ELSE XMMatrixScaling(1, 1, 1)
    [] side = "Front" ->
         IF w.t[3] < 0 THEN XMMatrixScaling(0, 0, 0) ELSE XMMatrixScaling(1, 1, 1)
    [] side = "Back" ->
         IF w.t[3] > 8 THEN XMMatrixScaling(0, 0, 0) ELSE XMMatrixScaling(1, 1, 1)

\* skullRotate * skullScale * skullOffset
SkullWorld(translation) == Matrix("RS", One3, translation)

\* skullWorld * R * T of the loop over the sides.
Composed(skullWorld, side) ==
  MatMul(MatMul(skullWorld, XMMatrixReflect(FindMirrorPlane(side))),
         FindMirrorOffset(side))

\* The product stored without the factor of IsPastMirrorPlane.
ReflectedWorldUnclamped(skullWorld, side) ==
  MatMul(Composed(skullWorld, side), XMMatrixScaling(1, 1, 1))

\* The matrix stored into mReflectedSkulls[j][k]->World.
ReflectedWorld(skullWorld, side) ==
  MatMul(Composed(skullWorld, side),
         IsPastMirrorPlane(Composed(skullWorld, side), side))

\* ----------------------------------------------------------- room geometry
\* The vertex positions of BuildRoomGeometry, vertices[0] first.
vertices ==
  << <<-4, -4, 0>>, <<-4, 4, 0>>, <<4, 4, 0>>, <<4, -4, 0>>,
     <<4, 4, 8>>, <<-4, 4, 8>>, <<-4, -4, 8>>, <<4, -4, 8>> >>

\* The index list of BuildRoomGeometry, indices[0] first.
indices ==
  << 0, 1, 2,  0, 2, 3,      \* mirror front
     1, 4, 2,  1, 5, 4,      \* mirror top
     6, 1, 0,  6, 5, 1,      \* mirror left
     3, 2, 7,  2, 4, 7,      \* mirror right
     4, 5, 6,  4, 6, 7,      \* mirror back
     0, 3, 6,  7, 6, 3 >>    \* mirror bottom

SubmeshGeometry(indexCount, startIndexLocation, baseVertexLocation) ==
  [IndexCount |-> indexCount, StartIndexLocation |-> startIndexLocation,
   BaseVertexLocation |-> baseVertexLocation]

\* geo->DrawArgs of roomGeo as BuildRoomGeometry fills it.
RoomDrawArgs ==
  [key \in {"mirrorFront", "mirrorTop", "mirrorLeft", "mirrorRight", "mirrorBack",
            "mirrorBottom"} |->
     CASE key = "mirrorFront" -> SubmeshGeometry(6, 0, 0)
       [] key = "mirrorTop" -> SubmeshGeometry(6, 6, 0)
       [] key = "mirrorLeft" -> SubmeshGeometry(6, 12, 0)
       [] key = "mirrorRight" -> SubmeshGeometry(6, 18, 0)
       [] key = "mirrorBack" -> SubmeshGeometry(6, 24, 0)
       [] key = "mirrorBottom" -> SubmeshGeometry(6, 30, 0)]

\* The positions a submesh draws.
SubmeshVertices(submesh) ==
  {vertices[indices[submesh.StartIndexLocation + n] + submesh.BaseVertexLocation + 1] :
     n \in 1 .. submesh.IndexCount}

\* The wall a face's mirror quad lies in: the axis all its vertices share a
\* coordinate on (1 = x, 2 = y, 3 = z), and that coordinate.
WallPlane ==
  [side \in Sides |->
     LET quad == SubmeshVertices(RoomDrawArgs["mirror" \o side])
         axis == CHOOSE a \in 1 .. 3 : \A v, w \in quad : v[a] = w[a]
     IN  [axis |-> axis, at |-> (CHOOSE v \in quad : TRUE)[axis]]]

\* tcount of the header of Models/skull.txt: the file describes a mesh,
\* so at least one triangle.
SkullTriangles == 1

\* geo->DrawArgs of skullGeo as BuildSkullGeometry fills it.
SkullDrawArgs == [key \in {"skull"} |-> SubmeshGeometry(3 * SkullTriangles, 0, 0)]

\* mGeometries[name] = std::move(geo): the submesh tables of the stored
\* meshes afterwards.
StoreMesh(tables, name, drawArgs) ==
  [g \in DOMAIN tables \cup {name} |-> IF g = name THEN drawArgs ELSE tables[g]]

\* DrawArgs[key] of std::unordered_map: the table after the access, which
\* inserts a default-constructed SubmeshGeometry under a key it lacks.
Subscripted(drawArgs, key) ==
  [k \in DOMAIN drawArgs \cup {key} |->
     IF k \in DOMAIN drawArgs THEN drawArgs[k] ELSE SubmeshGeometry(0, 0, 0)]

\* The items BuildRenderItems fills from a submesh, in program order, with
\* the key each passes to DrawArgs.
SubmeshReads ==
  << <<"floor", "floor">>, <<"walls", "wall">>, <<"skull", "skull">>,
     <<"skull2", "skull">>, <<"mirrorFront", "mirrorFront">>,
     <<"mirrorTop", "mirrorTop">>, <<"mirrorLeft", "mirrorLeft">>,
     <<"mirrorRight", "mirrorRight">>, <<"mirrorBack", "mirrorBack">>,
     <<"mirrorBottom", "mirrorBottom">> >>

\* The submesh tables and the IndexCount of the items filled, once the reads
\* from position n on are done; geo is the Geo of every item, and a read
\* through a null Geo that does not fault yields unowned.
RECURSIVE ReadSubmeshes(_, _, _, _)
ReadSubmeshes(tables, geo, unowned, n) ==
  IF n > Len(SubmeshReads) THEN [args |-> tables, count |-> <<>>]
  ELSE LET item == SubmeshReads[n][1]
           key == SubmeshReads[n][2]
           read == IF geo[item] \in DOMAIN tables
                     THEN [tables EXCEPT ![geo[item]] = Subscripted(@, key)]
                     ELSE tables
           rest == ReadSubmeshes(read, geo, unowned, n + 1)
           indexCount == IF geo[item] \in DOMAIN tables
                           THEN read[geo[item]][key].IndexCount
                           ELSE unowned
       IN  [args |-> rest.args,
            count |-> [i \in DOMAIN rest.count \cup {item} |->
                         IF i = item THEN indexCount ELSE rest.count[i]]]

\* IndexCount of every item: the reflected copies and the shadow item are
\* assigned from their skull (*copy = *item).
CopiedIndexCount(count) ==
  [i \in Items |->
     IF i \in DOMAIN count THEN count[i]
     ELSE IF i = mShadowedSkullRitem \/ \E s \in Sides : i = mReflectedSkulls(s, 0)
       THEN count["skull"]
     ELSE count["skull2"]]

\* The submesh tables and index counts Initialize leaves when the skull file
\* was read.
BuiltDrawArgs ==
  ReadSubmeshes(StoreMesh(StoreMesh(<<>>, "roomGeo", RoomDrawArgs), "skullGeo",
                          SkullDrawArgs),
                MeshOf, 0, 1).args

BuiltIndexCount ==
  CopiedIndexCount(
    ReadSubmeshes(StoreMesh(StoreMesh(<<>>, "roomGeo", RoomDrawArgs), "skullGeo",
                            SkullDrawArgs),
                  MeshOf, 0, 1).count)

\* ------------------------------------------------------------------- input
Keys == {"1", "2", "A", "D", "W", "S", "Q", "E"}

\* The sets of keys GetAsyncKeyState can report as down in one poll.
KeySets ==
  { {}, {"1"}, {"2"}, {"A"}, {"D"}, {"W"}, {"S"}, {"Q"}, {"E"}, {"2", "A"}, {"A", "D"} }

\* A shorter list of polls: nothing held, the other skull selected, a
\* movement key held.
KeySetsShort == { {}, {"2"}, {"A"} }

Held(keys, k) == IF k \in keys THEN 1 ELSE 0

\* mSelectedItemIndex after the two digit tests.
Selected(keys, sel) == IF "2" \in keys THEN 1 ELSE IF "1" \in keys THEN 0 ELSE sel

\* mSkullTranslations[mSelectedItemIndex] after the six movement tests.
Moved(keys, dt, tr) ==
  << tr[1] + 2 * dt * Held(keys, "Q") - 2 * dt * Held(keys, "E"),
     tr[2] + 2 * dt * Held(keys, "W") - 2 * dt * Held(keys, "S"),
     tr[3] - 2 * dt * Held(keys, "A") + 2 * dt * Held(keys, "D") >>

\* mSkullTranslations as BuildRenderItems leaves it.
InitSkullTranslations == <<(<<0, 0, -4>>), (<<0, 0, 12>>)>>

\* World of every item as BuildRenderItems leaves it: the reflected copies
\* and the shadow item are copies of the skull they were made from.
InitWorld ==
  [i \in Items |->
     IF i = "skull2" \/ \E s \in Sides : i = mReflectedSkulls(s, 1)
       THEN MatMul(Matrix("S", One3, Zero3), XMMatrixTranslation(0, 0, 10))
       ELSE Identity4x4]

\* ------------------------------------------------------------------- state
VARIABLES
  pc,                       \* where the frame loop stands
  mSelectedItemIndex,
  mSkullTranslations,
  World,                    \* RenderItem::World
  NumFramesDirty,           \* RenderItem::NumFramesDirty
  MatNumFramesDirty,        \* Material::NumFramesDirty
  mMainPassCB,
  mReflectedPassCB,
  mCurrFrameResourceIndex,
  mCurrFrameResource,
  Fence,                    \* FrameResource::Fence of every slot
  ObjectCB,                 \* FrameResource::ObjectCB of every slot
  MaterialCB,               \* FrameResource::MaterialCB of every slot
  PassCB,                   \* FrameResource::PassCB of every slot
  CmdListAlloc,             \* commands held by every slot's allocator
  mCurrentFence,
  mCommandQueue,            \* submitted work the GPU has not finished
  completedValue,           \* mFence->GetCompletedValue()
  updatesSinceWrite,        \* UpdateObjectCBs passes since an item's last write
  ObjCBIndex,               \* RenderItem::ObjCBIndex
  Geo,                      \* RenderItem::Geo: a mesh name or nullGeo
  IndexCount,               \* RenderItem::IndexCount
  mGeometries,              \* names of the meshes stored
  DrawArgs,                 \* MeshGeometry::DrawArgs of every mesh stored
  fin,                      \* the stream BuildSkullGeometry opens
  hr,                       \* the latest call that reported failure
  messageBox,               \* captions of the message boxes shown
  probe,                    \* input and result of the mirror composition alone
  raster,                   \* one pixel of the frame the GPU draws
  camera                    \* mTheta, mPhi, mRadius, mLastMousePos

vars ==
  << pc, mSelectedItemIndex, mSkullTranslations, World, NumFramesDirty,
     MatNumFramesDirty, mMainPassCB, mReflectedPassCB, mCurrFrameResourceIndex,
     mCurrFrameResource, Fence, ObjectCB, MaterialCB, PassCB, CmdListAlloc,
     mCurrentFence, mCommandQueue, completedValue, updatesSinceWrite, ObjCBIndex,
     Geo, IndexCount, mGeometries, DrawArgs, fin, hr, messageBox, probe, raster, camera >>

\* What the frame loop never assigns.
sceneVars == << ObjCBIndex, Geo, IndexCount, mGeometries, DrawArgs, fin, probe, raster, camera >>

appVars ==
  << pc, mSelectedItemIndex, mSkullTranslations, World, NumFramesDirty,
     MatNumFramesDirty, mMainPassCB, mReflectedPassCB, mCurrFrameResourceIndex,
     mCurrFrameResource, Fence, ObjectCB, MaterialCB, PassCB, CmdListAlloc,
     mCurrentFence, mCommandQueue, completedValue, updatesSinceWrite, ObjCBIndex,
     Geo, IndexCount, mGeometries, DrawArgs, fin, hr, messageBox >>


\* ----------------------------------------------------------- pass constants
\* Light directions are in units of 1/100000, positions in scene units.
\* Light as the Light struct constructs it.
DefaultLight == [Direction |-> <<0, -100000, 0>>, Position |-> Zero3]

\* The lights UpdateMainPassCB assigns (Lights[1] keeps its direction).
MainLights ==
  << [Direction |-> <<57735, -57735, 57735>>, Position |-> Zero3],
     [Direction |-> <<0, -100000, 0>>, Position |-> <<1, -3, -5>>],
     [Direction |-> <<0, -100000, 0>>, Position |-> <<1, 4, -4>>] >>

\* PassConstants as the struct constructs it.
DefaultPassConstants ==
  [Lights |-> <<DefaultLight, DefaultLight, DefaultLight>>, NearZ |-> 0, FarZ |-> 0]

\* mMainPassCB as UpdateMainPassCB leaves it.
MainPass == [Lights |-> MainLights, NearZ |-> 1, FarZ |-> 1000]

\* XMVector3TransformNormal(v, R): the linear part of R only.
XMVector3TransformNormal(v, R) == [a \in 1 .. 3 |-> v[a] * R.c[a]]

Negate(v) == [a \in 1 .. 3 |-> -v[a]]

\* UpdateReflectedPassCB reflecting the light directions only.
ReflectedPassDirections(main) ==
  LET R == XMMatrixReflect(<<0, 0, 1, 0>>)
  IN  [main EXCEPT !.Lights =
         [n \in 1 .. 3 |->
            [Direction |-> XMVector3TransformNormal(main.Lights[n].Direction, R),
             Position |-> main.Lights[n].Position]]]

\* mReflectedPassCB as UpdateReflectedPassCB derives it from mMainPassCB.
ReflectedPass(main) ==
  LET R == XMMatrixReflect(<<0, 0, 1, 0>>)
  IN  [main EXCEPT !.Lights =
         [n \in 1 .. 3 |->
            [Direction |-> XMVector3TransformNormal(main.Lights[n].Direction, R),
             Position |-> XMVector3TransformNormal(main.Lights[n].Position, R)]]]

\* ------------------------------------------------------- constant buffers
\* Upload-heap memory nothing has been copied into yet.
UnwrittenObject == [written |-> FALSE, World |-> Identity4x4, TexTransform |-> Identity4x4]

UnwrittenMaterial == [written |-> FALSE, Mat |-> ""]

UnwrittenPass ==
  [written |-> FALSE, Lights |-> DefaultPassConstants.Lights,
   NearZ |-> DefaultPassConstants.NearZ, FarZ |-> DefaultPassConstants.FarZ]

\* currPassCB->CopyData(n, pass): the element of the buffer afterwards.
CopyPass(pass) ==
  [written |-> TRUE, Lights |-> pass.Lights, NearZ |-> pass.NearZ, FarZ |-> pass.FarZ]

\* ObjectConstants built for item e (TexTransform is the identity for all).
ObjectConstants(world) ==
  [written |-> TRUE, World |-> XMMatrixTranspose(world),
   TexTransform |-> XMMatrixTranspose(Identity4x4)]

\* The loop of UpdateObjectCBs over mAllRitems, from position n on: the
\* buffer of the current slot after copying every dirty item.
RECURSIVE CopyDirtyObjects(_, _, _, _)
CopyDirtyObjects(cb, world, dirty, n) ==
  IF n > Len(mAllRitems) THEN cb
  ELSE LET e == mAllRitems[n]
       IN  CopyDirtyObjects(
             IF dirty[e] > 0
               THEN [cb EXCEPT ![ObjCBIndex[e]] = ObjectConstants(world[e])]
               ELSE cb,
             world, dirty, n + 1)

UpdateObjectCBs(cb, world, dirty) == CopyDirtyObjects(cb, world, dirty, 1)

\* The decrement of UpdateObjectCBs made without the test of the counter.
DirtyAfterUpdateUnguarded(d) == d - 1

\* NumFramesDirty of one item after UpdateObjectCBs.
DirtyAfterUpdate(d) == IF d > 0 THEN d - 1 ELSE d

UpdateMaterialCBs(cb, dirty) ==
  [x \in DOMAIN cb |->
     IF \E m \in Materials : MatCBIndex[m] = x /\ dirty[m] > 0
       THEN [written |-> TRUE, Mat |-> CHOOSE m \in Materials : MatCBIndex[m] = x]
       ELSE cb[x]]

\* --------------------------------------------------------- command recording
SetGraphicsRootConstantBufferView(passIndex) == [op |-> "SetPassCB", arg |-> passIndex, layer |-> ""]

OMSetStencilRef(ref) == [op |-> "SetStencilRef", arg |-> ref, layer |-> ""]

SetPipelineState(pso) == [op |-> "SetPSO", arg |-> 0, layer |-> pso]

DrawRenderItems(layer) == [op |-> "Draw", arg |-> 0, layer |-> layer]

\* The three passes Draw records for a face that is followed by another face.
FaceCommands(side) ==
  << OMSetStencilRef(1), SetPipelineState("markStencilMirrors"),
     DrawRenderItems(MirrorsLayer(side)),
     SetGraphicsRootConstantBufferView(1), SetPipelineState("drawStencilReflections"),
     DrawRenderItems(ReflectedLayer(side)),
     OMSetStencilRef(0), SetPipelineState("markStencilMirrors"),
     DrawRenderItems(MirrorsLayer(side)) >>

\* The passes Draw records for the Bottom face, the last one.
LastFaceCommands(side) ==
  << OMSetStencilRef(1), SetPipelineState("markStencilMirrors"),
     DrawRenderItems(MirrorsLayer(side)),
     SetGraphicsRootConstantBufferView(1), SetPipelineState("drawStencilReflections"),
     DrawRenderItems(ReflectedLayer(side)) >>

\* The transparent pass recorded without restoring pass constants and
\* stencil ref.
TransparentCommandsNoRestore ==
  << SetPipelineState("transparent"), DrawRenderItems("Transparent") >>

\* Restore main pass constants and stencil ref, then the transparent pass.
TransparentCommands ==
  << SetGraphicsRootConstantBufferView(0), OMSetStencilRef(0),
     SetPipelineState("transparent"), DrawRenderItems("Transparent") >>

\* The calls of Draw with the Left face's reflection pass moved behind the
\* Right face's mark pass.
DrawCommandsInterleaved ==
  << SetGraphicsRootConstantBufferView(0), DrawRenderItems("Opaque") >>
    \o FaceCommands("Front") \o FaceCommands("Back")
    \o << OMSetStencilRef(1), SetPipelineState("markStencilMirrors"),
          DrawRenderItems(MirrorsLayer("Left")),
          DrawRenderItems(MirrorsLayer("Right")),
          SetGraphicsRootConstantBufferView(1), SetPipelineState("drawStencilReflections"),
          DrawRenderItems(ReflectedLayer("Left")) >>
    \o FaceCommands("Right") \o FaceCommands("Top") \o LastFaceCommands("Bottom")
    \o TransparentCommands

\* The calls Draw makes on mCommandList, in program order.
DrawCommands ==
  << SetGraphicsRootConstantBufferView(0), DrawRenderItems("Opaque") >>
    \o FaceCommands("Front") \o FaceCommands("Back") \o FaceCommands("Left")
    \o FaceCommands("Right") \o FaceCommands("Top") \o LastFaceCommands("Bottom")
    \o TransparentCommands

\* The command list after Reset(cmdListAlloc, mPSOs["opaque"]): the stencil
\* reference of a reset list is 0 and no pass constants are bound.
ResetState == [pso |-> "opaque", stencilRef |-> 0, passCB |-> -1]

\* The layer draws a sequence of calls records, each with the pipeline state,
\* stencil reference and pass constants bound when it is issued.
RECURSIVE Record(_, _, _)
Record(cmds, n, st) ==
  IF n > Len(cmds) THEN <<>>
  ELSE LET c == cmds[n]
       IN  CASE c.op = "SetPassCB" -> Record(cmds, n + 1, [st EXCEPT !.passCB = c.arg])
             [] c.op = "SetStencilRef" -> Record(cmds, n + 1, [st EXCEPT !.stencilRef = c.arg])
             [] c.op = "SetPSO" -> Record(cmds, n + 1, [st EXCEPT !.pso = c.layer])
             [] c.op = "Draw" ->
                  << [layer |-> c.layer, pso |-> st.pso, stencilRef |-> st.stencilRef,
                      passCB |-> st.passCB] >> \o Record(cmds, n + 1, st)

RecordedDraws == Record(DrawCommands, 1, ResetState)


\* ------------------------------------------------------------ initial state
\* mCurrentFence once Initialize has returned: its FlushCommandQueue advanced
\* the counter and waited for the GPU to reach it.
InitialFence == 1

NoProbe == [translation |-> Zero3, side |-> "Front", applied |-> FALSE,
            composed |-> Identity4x4, world |-> Identity4x4,
            reflectedTwice |-> Identity4x4, composedTwice |-> Identity4x4]

\* Angles are in units of pi/72000, so that one pixel of a left-button drag
\* (a quarter of a degree) is 100 units; the radius is in units of 0.2, one
\* pixel of a right-button drag.
\* mTheta = 1.24 pi, mPhi = 0.42 pi, mRadius = 12; mLastMousePos has no
\* initialiser and holds no defined value until a mouse handler stores one.
InitCamera ==
  [mTheta |-> 89280, mPhi |-> 30240, mRadius |-> 60,
   mLastMousePos |-> [x |-> 0, y |-> 0, assigned |-> FALSE]]

\* No primitive of a draw covers the pixel.
NoFragment == -1

\* No frame is being drawn.
NoRaster ==
  [next |-> 0, colour |-> <<>>, depth |-> 0, stencil |-> 0, markedBy |-> "",
   mirror |-> [side \in Sides |-> NoFragment]]

InitApp ==
  /\ pc = "Update"
  /\ mSelectedItemIndex = 0
  /\ mSkullTranslations = InitSkullTranslations
  /\ World = InitWorld
  /\ NumFramesDirty = [i \in Items |-> gNumFrameResources]
  /\ MatNumFramesDirty = [m \in Materials |-> gNumFrameResources]
  /\ mMainPassCB = DefaultPassConstants
  /\ mReflectedPassCB = DefaultPassConstants
  /\ mCurrFrameResourceIndex = 0
  /\ mCurrFrameResource = nullptr
  /\ Fence = [s \in Slots |-> 0]
  /\ ObjectCB = [s \in Slots |-> [x \in 0 .. (Len(mAllRitems) - 1) |-> UnwrittenObject]]
  /\ MaterialCB = [s \in Slots |-> [x \in 0 .. (Cardinality(Materials) - 1) |-> UnwrittenMaterial]]
  /\ PassCB = [s \in Slots |-> [x \in 0 .. (passCount - 1) |-> UnwrittenPass]]
  /\ CmdListAlloc = [s \in Slots |-> <<>>]
  /\ mCurrentFence = InitialFence
  /\ mCommandQueue = <<>>
  /\ completedValue = InitialFence
  /\ updatesSinceWrite = [i \in Items |-> 0]
  /\ ObjCBIndex = BuiltObjCBIndex
  /\ Geo = MeshOf
  /\ IndexCount = BuiltIndexCount
  /\ DrawArgs = BuiltDrawArgs
  /\ mGeometries = Meshes
  /\ fin = "closed"
  /\ hr = "S_OK"
  /\ messageBox = <<>>
  /\ camera = InitCamera

Init == InitApp /\ probe = NoProbe /\ raster = NoRaster

\* ------------------------------------------------------------------ Update
\* The items whose World OnKeyboardInput stores for selection sel.
WrittenByInput(sel) ==
  {mSkulls[sel + 1], mShadowedSkullRitem} \cup {mReflectedSkulls(s, sel) : s \in Sides}

\* OnKeyboardInput storing the reflection into the copies of every skull.
WorldAfterInputEveryCopy(world, sel, tr, lightDirection) ==
  [i \in Items |->
     IF i = mSkulls[sel + 1] THEN SkullWorld(tr)
     ELSE IF i = mShadowedSkullRitem
       THEN ShadowWorld(SkullWorld(tr), Negate(lightDirection))
     ELSE IF \E s \in Sides, k \in SkullIndices : i = mReflectedSkulls(s, k)
       THEN ReflectedWorld(SkullWorld(tr),
                           CHOOSE s \in Sides : \E k \in SkullIndices : i = mReflectedSkulls(s, k))
     ELSE world[i]]

\* World of every item after OnKeyboardInput with selection sel and the
\* selected skull at translation tr.
WorldAfterInput(world, sel, tr, lightDirection) ==
  [i \in Items |->
     IF i = mSkulls[sel + 1] THEN SkullWorld(tr)
     ELSE IF i = mShadowedSkullRitem
       THEN ShadowWorld(SkullWorld(tr), Negate(lightDirection))
     ELSE IF \E s \in Sides : i = mReflectedSkulls(s, sel)
       THEN ReflectedWorld(SkullWorld(tr), CHOOSE s \in Sides : i = mReflectedSkulls(s, sel))
     ELSE world[i]]

\* OnKeyboardInput marking the written items dirty for one frame too few.
DirtyAfterInputShort(dirty, sel) ==
  [i \in Items |-> IF i \in WrittenByInput(sel) THEN gNumFrameResources - 1 ELSE dirty[i]]

\* NumFramesDirty of every item after OnKeyboardInput.
DirtyAfterInput(dirty, sel) ==
  [i \in Items |-> IF i \in WrittenByInput(sel) THEN gNumFrameResources ELSE dirty[i]]

Abs(n) == IF n < 0 THEN -n ELSE n

\* The translations the model follows a skull to: those whose distance from
\* the skull's starting translation, summed over the axes, is within MaxOffset.
InBox(k, tr) ==
  Abs(tr[1] - InitSkullTranslations[k + 1][1])
    + Abs(tr[2] - InitSkullTranslations[k + 1][2])
    + Abs(tr[3] - InitSkullTranslations[k + 1][3]) <= MaxOffset

\* The cycle taken over one slot too few.
NextFrameResourceIndexShort(i) == (i + 1) % (gNumFrameResources - 1)

\* Cycle through the circular frame resource array.
NextFrameResourceIndex(i) == (i + 1) % gNumFrameResources

\* Update up to the fence test: OnKeyboardInput, UpdateCamera, and the step
\* to the next frame resource.
OnKeyboardInput(keys, dt) ==
  LET sel == Selected(keys, mSelectedItemIndex)
      tr == Moved(keys, dt, mSkullTranslations[sel + 1])
  IN  /\ pc = "Update"
      /\ InBox(sel, tr)
      /\ mSelectedItemIndex' = sel
      /\ mSkullTranslations' = [mSkullTranslations EXCEPT ![sel + 1] = tr]
      /\ World' = WorldAfterInput(World, sel, tr, mMainPassCB.Lights[1].Direction)
      /\ NumFramesDirty' = DirtyAfterInput(NumFramesDirty, sel)
      /\ updatesSinceWrite' =
           [i \in Items |-> IF i \in WrittenByInput(sel) THEN 0 ELSE updatesSinceWrite[i]]
      /\ mCurrFrameResourceIndex' = NextFrameResourceIndex(mCurrFrameResourceIndex)
      /\ mCurrFrameResource' = mCurrFrameResourceIndex'
      /\ pc' = "FenceWait"
      /\ UNCHANGED << MatNumFramesDirty, mMainPassCB, mReflectedPassCB, Fence, ObjectCB,
                      MaterialCB, PassCB, CmdListAlloc, mCurrentFence, mCommandQueue,
                      completedValue, sceneVars, hr, messageBox >>

\* The fence test passing one value early.
FenceReachedEarly(fence, completed) == ~(fence # 0 /\ completed + 1 < fence)

\* Update going on without the fence test.
FenceReachedNoWait(fence, completed) == fence >= 0 /\ completed >= 0

\* The wait ending only once the GPU is past the slot's fence value.
FenceReachedStrict(fence, completed) == ~(fence # 0 /\ completed <= fence)

\* The test that lets Update go on without waiting, or ends its wait.
FenceReached(fence, completed) == ~(fence # 0 /\ completed < fence)

\* Update after the fence test: the writes into the current frame resource.
WriteFrameResource ==
  /\ ObjectCB' = [ObjectCB EXCEPT ![mCurrFrameResource] =
                    UpdateObjectCBs(ObjectCB[mCurrFrameResource], World, NumFramesDirty)]
  /\ NumFramesDirty' = [i \in Items |-> DirtyAfterUpdate(NumFramesDirty[i])]
  /\ updatesSinceWrite' =
       [i \in Items |-> IF updatesSinceWrite[i] < gNumFrameResources
                          THEN updatesSinceWrite[i] + 1 ELSE updatesSinceWrite[i]]
  /\ MaterialCB' = [MaterialCB EXCEPT ![mCurrFrameResource] =
                      UpdateMaterialCBs(MaterialCB[mCurrFrameResource], MatNumFramesDirty)]
  /\ MatNumFramesDirty' = [m \in Materials |-> DirtyAfterUpdate(MatNumFramesDirty[m])]
  /\ mMainPassCB' = MainPass
  /\ mReflectedPassCB' = ReflectedPass(mMainPassCB')
  /\ PassCB' = [PassCB EXCEPT ![mCurrFrameResource] =
                  [x \in 0 .. 1 |->
                     IF x = 0 THEN CopyPass(mMainPassCB') ELSE CopyPass(mReflectedPassCB')]]
  /\ pc' = "Draw"
  /\ UNCHANGED << mSelectedItemIndex, mSkullTranslations, World, mCurrFrameResourceIndex,
                  mCurrFrameResource, Fence, CmdListAlloc, mCurrentFence, mCommandQueue,
                  completedValue, sceneVars >>

\* Update from the fence test on: the wait, then the writes into the
\* current frame resource.
UpdateCBs ==
  /\ pc = "FenceWait"
  /\ FenceReached(Fence[mCurrFrameResource], completedValue)
  /\ WriteFrameResource
  /\ UNCHANGED << hr, messageBox >>

\* -------------------------------------------------------------------- Draw
\* The fence value stored and signalled without advancing the counter.
AdvanceFenceStuck(f) == f

\* ++mCurrentFence
AdvanceFence(f) == f + 1

\* Draw: reset the slot's allocator, record, submit, advance the fence and
\* store it in the slot; the queue takes the fence signal when Signal
\* succeeds.
SubmitFrame(signalled) ==
  /\ pc = "Draw"
  /\ mCurrentFence < MaxFence
  /\ CmdListAlloc' = [CmdListAlloc EXCEPT ![mCurrFrameResource] = RecordedDraws]
  /\ mCurrentFence' = AdvanceFence(mCurrentFence)
  /\ Fence' = [Fence EXCEPT ![mCurrFrameResource] = mCurrentFence']
  /\ mCommandQueue' =
       IF signalled
         THEN Append(mCommandQueue, [slot |-> mCurrFrameResource, fence |-> mCurrentFence'])
         ELSE mCommandQueue
  /\ pc' = "Update"
  /\ UNCHANGED << mSelectedItemIndex, mSkullTranslations, World, NumFramesDirty,
                  MatNumFramesDirty, mMainPassCB, mReflectedPassCB, mCurrFrameResourceIndex,
                  mCurrFrameResource, ObjectCB, MaterialCB, PassCB, completedValue,
                  updatesSinceWrite, sceneVars >>

Draw == SubmitFrame(TRUE) /\ UNCHANGED << hr, messageBox >>

\* --------------------------------------------------------------------- GPU
\* The GPU finishes the oldest submitted frame and its fence signal.
GpuComplete ==
  /\ pc \notin {"Exit", "Crashed"}
  /\ mCommandQueue # <<>>
  /\ completedValue' = Head(mCommandQueue).fence
  /\ mCommandQueue' = Tail(mCommandQueue)
  /\ UNCHANGED << pc, mSelectedItemIndex, mSkullTranslations, World, NumFramesDirty,
                  MatNumFramesDirty, mMainPassCB, mReflectedPassCB, mCurrFrameResourceIndex,
                  mCurrFrameResource, Fence, ObjectCB, MaterialCB, PassCB, CmdListAlloc,
                  mCurrentFence, updatesSinceWrite, sceneVars, hr, messageBox >>

Next ==
  \/ \E keys \in KeySets, dt \in DeltaTimes : OnKeyboardInput(keys, dt)
  \/ UpdateCBs
  \/ Draw
  \/ GpuComplete

Spec == Init /\ [][Next]_vars

\* The frame loop over the shorter list of polls.
NextLive ==
  \/ \E keys \in KeySetsShort, dt \in DeltaTimes : OnKeyboardInput(keys, dt)
  \/ UpdateCBs
  \/ Draw
  \/ GpuComplete

\* The frame loop with the message pump never starved and a GPU that goes
\* on executing what was submitted to it.
SpecLive ==
  /\ Init
  /\ [][NextLive]_vars
  /\ WF_vars(\E keys \in KeySetsShort, dt \in DeltaTimes : OnKeyboardInput(keys, dt))
  /\ WF_vars(UpdateCBs)
  /\ WF_vars(Draw)
  /\ WF_vars(GpuComplete)

\* ------------------------------------------- the mirror composition alone
ProbeInputs ==
  [translation : {<<x, y, z>> : x \in (-MaxProbe) .. MaxProbe,
                                y \in (-MaxProbe) .. MaxProbe,
                                z \in (4 - MaxProbe) .. (4 + MaxProbe)},
   side : Sides, applied : {FALSE}, composed : {Identity4x4}, world : {Identity4x4},
   reflectedTwice : {Identity4x4}, composedTwice : {Identity4x4}]

InitMirror == InitApp /\ probe \in ProbeInputs /\ raster = NoRaster

\* One pass of the loop over the sides in OnKeyboardInput, for a skull at
\* probe.translation; the reflection R alone and the product R * T are also
\* applied a second time to their own result.
ComposeMirror ==
  /\ ~probe.applied
  /\ probe' = [probe EXCEPT
                 !.applied = TRUE,
                 !.composed = Composed(SkullWorld(probe.translation), probe.side),
                 !.world = ReflectedWorld(SkullWorld(probe.translation), probe.side),
                 !.reflectedTwice =
                    MatMul(MatMul(SkullWorld(probe.translation),
                                  XMMatrixReflect(FindMirrorPlane(probe.side))),
                           XMMatrixReflect(FindMirrorPlane(probe.side))),
                 !.composedTwice =
                    Composed(Composed(SkullWorld(probe.translation), probe.side),
                             probe.side)]
  /\ UNCHANGED << appVars, raster, camera >>

NextMirror == ComposeMirror

SpecMirror == InitMirror /\ [][NextMirror]_vars


\* ------------------------------------------------- WinMain: startup, failure
\* What BuildRenderItems builds, what BuildFrameResources builds, the fence.
itemVars == << mSkullTranslations, World, NumFramesDirty, updatesSinceWrite, ObjCBIndex, Geo,
     IndexCount >>

ringVars == << Fence, ObjectCB, MaterialCB, PassCB, CmdListAlloc >>

fenceVars == << mCurrentFence, completedValue >>

\* What Initialize leaves as the constructor set it.
loopVars ==
  << mSelectedItemIndex, mMainPassCB, mReflectedPassCB, mCurrFrameResourceIndex,
     mCurrFrameResource, mCommandQueue, probe, raster, camera >>

\* The members as the constructor leaves them: every container is empty.
InitMain ==
  /\ pc = "Initialize"
  /\ mSelectedItemIndex = 0
  /\ mSkullTranslations = <<>>
  /\ World = <<>>
  /\ NumFramesDirty = <<>>
  /\ MatNumFramesDirty = <<>>
  /\ mMainPassCB = DefaultPassConstants
  /\ mReflectedPassCB = DefaultPassConstants
  /\ mCurrFrameResourceIndex = 0
  /\ mCurrFrameResource = nullptr
  /\ Fence = <<>>
  /\ ObjectCB = <<>>
  /\ MaterialCB = <<>>
  /\ PassCB = <<>>
  /\ CmdListAlloc = <<>>
  /\ mCurrentFence = 0
  /\ mCommandQueue = <<>>
  /\ completedValue = 0
  /\ updatesSinceWrite = <<>>
  /\ ObjCBIndex = <<>>
  /\ Geo = <<>>
  /\ IndexCount = <<>>
  /\ DrawArgs = <<>>
  /\ mGeometries = {}
  /\ fin = "unopened"
  /\ hr = "S_OK"
  /\ messageBox = <<>>
  /\ probe = NoProbe
  /\ raster = NoRaster
  /\ camera = InitCamera

\* The process ends: theApp and everything it owns is destroyed.
DestroyApp ==
  /\ mSkullTranslations' = <<>>
  /\ World' = <<>>
  /\ NumFramesDirty' = <<>>
  /\ MatNumFramesDirty' = <<>>
  /\ updatesSinceWrite' = <<>>
  /\ ObjCBIndex' = <<>>
  /\ Geo' = <<>>
  /\ IndexCount' = <<>>
  /\ DrawArgs' = <<>>
  /\ mGeometries' = {}
  /\ Fence' = <<>>
  /\ ObjectCB' = <<>>
  /\ MaterialCB' = <<>>
  /\ PassCB' = <<>>
  /\ CmdListAlloc' = <<>>
  /\ mCurrFrameResource' = nullptr
  /\ mCommandQueue' = <<>>
  /\ UNCHANGED << mSelectedItemIndex, mMainPassCB, mReflectedPassCB,
                  mCurrFrameResourceIndex, fenceVars, probe, raster, camera >>

\* Initialize up to BuildRoomGeometry, which stores roomGeo.
Initialize ==
  /\ pc = "Initialize"
  /\ mGeometries' = mGeometries \cup {"roomGeo"}
  /\ DrawArgs' = StoreMesh(DrawArgs, "roomGeo", RoomDrawArgs)
  /\ pc' = "BuildSkullGeometry"
  /\ UNCHANGED << itemVars, ringVars, fenceVars, loopVars, MatNumFramesDirty, fin, hr,
                  messageBox >>

\* BuildSkullGeometry: a stream that did not open is reported in a message
\* box and the function returns before storing skullGeo.
BuildSkullGeometry(opened) ==
  /\ pc = "BuildSkullGeometry"
  /\ IF opened
       THEN /\ fin' = "closed"
            /\ mGeometries' = mGeometries \cup {"skullGeo"}
            /\ DrawArgs' = StoreMesh(DrawArgs, "skullGeo", SkullDrawArgs)
            /\ messageBox' = messageBox
       ELSE /\ fin' = "fail"
            /\ mGeometries' = mGeometries
            /\ DrawArgs' = DrawArgs
            /\ messageBox' = Append(messageBox, "Models/skull.txt not found.")
  /\ pc' = "BuildMaterials"
  /\ UNCHANGED << itemVars, ringVars, fenceVars, loopVars, MatNumFramesDirty, hr >>

BuildMaterials ==
  /\ pc = "BuildMaterials"
  /\ MatNumFramesDirty' = [m \in Materials |-> gNumFrameResources]
  /\ pc' = "BuildRenderItems"
  /\ UNCHANGED << itemVars, ringVars, fenceVars, loopVars, mGeometries, DrawArgs, fin,
                  hr, messageBox >>

\* The null MeshGeometry pointer.
nullGeo == "nullptr"

\* mGeometries[name].get() for every item: null for a mesh never stored.
LookedUpGeo == [i \in Items |-> IF MeshOf[i] \in mGeometries THEN MeshOf[i] ELSE nullGeo]

\* What reading Geo->DrawArgs through a null Geo can do: the read faults, or
\* it yields whatever the address holds and the program goes on.
NullDereferenceOutcomes == {"AccessViolation", "Continue"}

\* The index counts such a read can yield.
UnownedIndexCounts == {0, 3}

\* BuildRenderItems: every item reads its submesh through its Geo.
BuildRenderItems(outcome, unowned) ==
  /\ pc = "BuildRenderItems"
  /\ IF (\E i \in Items : LookedUpGeo[i] = nullGeo) /\ outcome = "AccessViolation"
       THEN /\ pc' = "Crashed"
            /\ DestroyApp
       ELSE /\ pc' = "BuildFrameResources"
            /\ mSkullTranslations' = InitSkullTranslations
            /\ World' = InitWorld
            /\ NumFramesDirty' = [i \in Items |-> gNumFrameResources]
            /\ updatesSinceWrite' = [i \in Items |-> 0]
            /\ ObjCBIndex' = BuiltObjCBIndex
            /\ Geo' = LookedUpGeo
            /\ IndexCount' = CopiedIndexCount(ReadSubmeshes(DrawArgs, LookedUpGeo, unowned, 1).count)
            /\ DrawArgs' = ReadSubmeshes(DrawArgs, LookedUpGeo, unowned, 1).args
            /\ UNCHANGED << ringVars, fenceVars, loopVars, MatNumFramesDirty, mGeometries >>
  /\ UNCHANGED << fin, hr, messageBox >>

BuildFrameResources ==
  /\ pc = "BuildFrameResources"
  /\ Fence' = [s \in Slots |-> 0]
  /\ ObjectCB' = [s \in Slots |-> [x \in 0 .. (Len(mAllRitems) - 1) |-> UnwrittenObject]]
  /\ MaterialCB' = [s \in Slots |-> [x \in 0 .. (Cardinality(Materials) - 1) |-> UnwrittenMaterial]]
  /\ PassCB' = [s \in Slots |-> [x \in 0 .. (passCount - 1) |-> UnwrittenPass]]
  /\ CmdListAlloc' = [s \in Slots |-> <<>>]
  /\ pc' = "BuildPSOs"
  /\ UNCHANGED << itemVars, fenceVars, loopVars, MatNumFramesDirty, mGeometries, DrawArgs,
                  fin, hr,
                  messageBox >>

\* BuildPSOs, then the initialization commands are executed and
\* FlushCommandQueue waits for them; Run starts with Update.
FlushCommandQueue ==
  /\ pc = "BuildPSOs"
  /\ mCurrentFence' = AdvanceFence(mCurrentFence)
  /\ completedValue' = mCurrentFence'
  /\ pc' = "Update"
  /\ UNCHANGED << itemVars, ringVars, loopVars, MatNumFramesDirty, mGeometries, DrawArgs,
                  fin, hr,
                  messageBox >>

\* The calls wrapped in ThrowIfFailed, by the place the program stands at.
CheckedCalls ==
  [p \in {"Initialize", "BuildSkullGeometry", "BuildPSOs", "FenceWait", "Draw"} |->
     CASE p = "Initialize" ->
            {"mCommandList->Reset", "CreateDDSTextureFromFile12", "CreateRootSignature",
             "CreateDescriptorHeap", "D3DCreateBlob"}
       [] p = "BuildSkullGeometry" -> {"D3DCreateBlob"}
       [] p = "BuildPSOs" -> {"CreateGraphicsPipelineState", "mCommandList->Close"}
       [] p = "FenceWait" -> {"SetEventOnCompletion"}
       [] p = "Draw" ->
            {"cmdListAlloc->Reset", "mCommandList->Reset", "mCommandList->Close", "Present"}]

\* Update is inside the branch that waits for the slot's fence value.
InWaitBranch == pc = "FenceWait" /\ ~FenceReached(Fence[mCurrFrameResource], completedValue)

\* A call wrapped in ThrowIfFailed fails: DxException, caught in WinMain,
\* which shows the message box and returns.
Throw(call) ==
  /\ pc \in DOMAIN CheckedCalls
  /\ call \in CheckedCalls[pc]
  /\ pc = "FenceWait" => InWaitBranch
  /\ hr' = call
  /\ messageBox' = Append(messageBox, "HR Failed")
  /\ fin' = IF pc = "BuildSkullGeometry" THEN "closed" ELSE fin
  /\ pc' = "Exit"
  /\ DestroyApp

\* CreateEventEx fails: the null handle goes to SetEventOnCompletion, which
\* then returns only once the fence has reached the value.
CreateEventExFails ==
  /\ InWaitBranch
  /\ hr # "CreateEventEx"
  /\ hr' = "CreateEventEx"
  /\ UNCHANGED << pc, itemVars, ringVars, fenceVars, loopVars, MatNumFramesDirty,
                  mGeometries, DrawArgs, fin, messageBox >>

\* WaitForSingleObject fails: it returns at once and Update goes on.
WaitForSingleObjectFails ==
  /\ InWaitBranch
  /\ WriteFrameResource
  /\ hr' = "WaitForSingleObject"
  /\ UNCHANGED messageBox

\* Signal fails: Draw returns with the fence value stored in the slot and
\* never signalled.
SignalFails ==
  /\ SubmitFrame(FALSE)
  /\ hr' = "Signal"
  /\ UNCHANGED messageBox

\* The layers Draw passes to DrawRenderItems.
DrawnLayers == {RecordedDraws[n].layer : n \in 1 .. Len(RecordedDraws)}

\* DrawRenderItems reads ri->Geo of an item whose Geo is null, and faults.
DrawFaults ==
  /\ pc = "Draw"
  /\ \E l \in DrawnLayers : \E n \in 1 .. Len(mRitemLayer[l]) : Geo[mRitemLayer[l][n]] = nullGeo
  /\ pc' = "Crashed"
  /\ DestroyApp
  /\ UNCHANGED << fin, hr, messageBox >>

NextMain ==
  \/ Initialize
  \/ \E opened \in BOOLEAN : BuildSkullGeometry(opened)
  \/ BuildMaterials
  \/ \E outcome \in NullDereferenceOutcomes, unowned \in UnownedIndexCounts :
       BuildRenderItems(outcome, unowned)
  \/ BuildFrameResources
  \/ FlushCommandQueue
  \/ \E keys \in KeySetsShort, dt \in DeltaTimes : OnKeyboardInput(keys, dt)
  \/ UpdateCBs
  \/ Draw
  \/ GpuComplete
  \/ \E call \in UNION {CheckedCalls[p] : p \in DOMAIN CheckedCalls} : Throw(call)
  \/ CreateEventExFails
  \/ WaitForSingleObjectFails
  \/ SignalFails
  \/ DrawFaults

SpecMain == InitMain /\ [][NextMain]_vars

\* ------------------------------------------------ one pixel of a drawn frame
\* The output-merger fields of the pipeline states BuildPSOs creates.
\* CD3DX12_BLEND_DESC(D3D12_DEFAULT) and CD3DX12_DEPTH_STENCIL_DESC(D3D12_DEFAULT).
opaquePsoDesc ==
  [RenderTargetWriteMask |-> "ALL", BlendEnable |-> FALSE,
   DepthEnable |-> TRUE, DepthWriteMask |-> "ALL", DepthFunc |-> "LESS",
   StencilEnable |-> FALSE, StencilFunc |-> "ALWAYS", StencilFailOp |-> "KEEP",
   StencilDepthFailOp |-> "KEEP", StencilPassOp |-> "KEEP"]

transparentPsoDesc == [opaquePsoDesc EXCEPT !.BlendEnable = TRUE]

\* The mark-mirror state with depth writes left on.
markMirrorsPsoDescDepthWrite ==
  [opaquePsoDesc EXCEPT
     !.RenderTargetWriteMask = "0",
     !.DepthEnable = TRUE, !.DepthWriteMask = "ALL", !.DepthFunc = "LESS",
     !.StencilEnable = TRUE, !.StencilFailOp = "KEEP", !.StencilDepthFailOp = "KEEP",
     !.StencilPassOp = "REPLACE", !.StencilFunc = "ALWAYS"]

markMirrorsPsoDesc ==
  [opaquePsoDesc EXCEPT
     !.RenderTargetWriteMask = "0",
     !.DepthEnable = TRUE, !.DepthWriteMask = "ZERO", !.DepthFunc = "LESS",
     !.StencilEnable = TRUE, !.StencilFailOp = "KEEP", !.StencilDepthFailOp = "KEEP",
     !.StencilPassOp = "REPLACE", !.StencilFunc = "ALWAYS"]

drawReflectionsPsoDesc ==
  [opaquePsoDesc EXCEPT
     !.DepthEnable = TRUE, !.DepthWriteMask = "ALL", !.DepthFunc = "LESS",
     !.StencilEnable = TRUE, !.StencilFailOp = "KEEP", !.StencilDepthFailOp = "KEEP",
     !.StencilPassOp = "KEEP", !.StencilFunc = "EQUAL"]

shadowPsoDesc ==
  [transparentPsoDesc EXCEPT
     !.DepthEnable = TRUE, !.DepthWriteMask = "ALL", !.DepthFunc = "LESS",
     !.StencilEnable = TRUE, !.StencilFailOp = "KEEP", !.StencilDepthFailOp = "KEEP",
     !.StencilPassOp = "INCR", !.StencilFunc = "EQUAL"]

mPSOs ==
  [name \in {"opaque", "transparent", "markStencilMirrors", "drawStencilReflections",
             "shadow"} |->
     CASE name = "opaque" -> opaquePsoDesc
       [] name = "transparent" -> transparentPsoDesc
       [] name = "markStencilMirrors" -> markMirrorsPsoDesc
       [] name = "drawStencilReflections" -> drawReflectionsPsoDesc
       [] name = "shadow" -> shadowPsoDesc]

\* D3D12_COMPARISON_FUNC applied to the stencil reference and the stored value.
StencilTest(func, ref, stored) ==
  CASE func = "ALWAYS" -> TRUE
    [] func = "EQUAL" -> ref = stored

\* D3D12_STENCIL_OP applied to the stored value (8 bits).
StencilOp(op, ref, stored) ==
  CASE op = "KEEP" -> stored
    [] op = "REPLACE" -> ref
    [] op = "INCR" -> (stored + 1) % 256

\* The pixel after the output merger has handled one fragment of a draw of
\* the given layer: the stencil test, then the depth test, the stencil
\* operation chosen by their results, and the depth and colour writes of a
\* fragment that passed both.
OutputMerger(pso, ref, layer, frag, px) ==
  IF frag = NoFragment THEN px
  ELSE LET stencilPass == ~pso.StencilEnable \/ StencilTest(pso.StencilFunc, ref, px.stencil)
           depthPass == ~pso.DepthEnable \/ frag < px.depth
           op == IF ~stencilPass THEN pso.StencilFailOp
                 ELSE IF ~depthPass THEN pso.StencilDepthFailOp
                 ELSE pso.StencilPassOp
           written == stencilPass /\ depthPass
       IN  [px EXCEPT
              !.stencil = IF pso.StencilEnable THEN StencilOp(op, ref, px.stencil)
                          ELSE px.stencil,
              !.depth = IF written /\ pso.DepthWriteMask = "ALL" THEN frag ELSE px.depth,
              !.colour = IF written /\ pso.RenderTargetWriteMask = "ALL"
                           THEN IF pso.BlendEnable THEN Append(px.colour, layer)
                                ELSE <<layer>>
                           ELSE px.colour]

\* The depth of a fragment, or NoFragment.
Fragments == 0 .. (MaxDepth - 1) \cup {NoFragment}

\* The face a mirror item belongs to, "" for the other items.
MirrorSide ==
  [i \in Items |->
     IF \E side \in Sides : i = MirrorItem(side)
       THEN CHOOSE side \in Sides : i = MirrorItem(side)
       ELSE ""]

\* What the six mirror quads put on one pixel: the room is a convex box, so
\* a view ray crosses at most two of its faces, at different depths.
MirrorFragments ==
  {m \in [Sides -> Fragments] :
     /\ Cardinality({side \in Sides : m[side] # NoFragment}) <= 2
     /\ \A a, b \in Sides : a # b /\ m[a] # NoFragment => m[a] # m[b]}

\* The pixel before the first frame: the views hold whatever the resources
\* were created with.
RasterInputs ==
  {[next |-> 0, colour |-> <<>>, depth |-> d, stencil |-> st, markedBy |-> "",
    mirror |-> m] : d \in 0 .. MaxDepth, st \in {0, 1}, m \in MirrorFragments}

\* DrawRenderItems: the items of the layer in order, each through the
\* output merger.  A mirror item puts its quad's fragment on the pixel,
\* the skulls of the layer put frag, their nearest fragment.
RECURSIVE DrawIndexedInstanced(_, _, _, _, _, _)
DrawIndexedInstanced(ritems, n, draw, frag, mirror, px) ==
  IF n > Len(ritems) THEN px
  ELSE LET ri == ritems[n]
           f == IF MirrorSide[ri] # "" THEN mirror[MirrorSide[ri]] ELSE frag
       IN  DrawIndexedInstanced(ritems, n + 1, draw, frag, mirror,
             OutputMerger(mPSOs[draw.pso], draw.stencilRef, draw.layer, f, px))

\* ClearRenderTargetView and ClearDepthStencilView(depth 1.0, stencil 0).
ClearViews ==
  /\ raster.next = 0
  /\ raster' = [raster EXCEPT !.next = 1, !.colour = <<"FogColor">>,
                              !.depth = MaxDepth, !.stencil = 0, !.markedBy = ""]
  /\ UNCHANGED << appVars, probe, camera >>

\* The GPU executes the next layer draw of the frame on the pixel.
ExecuteDraw(frag) ==
  /\ raster.next \in 1 .. Len(RecordedDraws)
  /\ LET draw == RecordedDraws[raster.next]
         px == DrawIndexedInstanced(mRitemLayer[draw.layer], 1, draw, frag,
                                    raster.mirror, raster)
         marks == /\ draw.pso = "markStencilMirrors"
                  /\ \E n \in 1 .. Len(mRitemLayer[draw.layer]) :
                       LET f == raster.mirror[MirrorSide[mRitemLayer[draw.layer][n]]]
                       IN  f # NoFragment /\ f < raster.depth
     IN  raster' = [px EXCEPT !.next = raster.next + 1,
                              !.markedBy = IF ~marks THEN raster.markedBy
                                           ELSE IF draw.stencilRef = 1
                                                  THEN MirrorSide[mRitemLayer[draw.layer][1]]
                                                  ELSE ""]
  /\ UNCHANGED << appVars, probe, camera >>

\* mSwapChain->Present: the frame is complete and the next one starts on
\* the same views.
Present ==
  /\ raster.next = Len(RecordedDraws) + 1
  /\ raster' = [raster EXCEPT !.next = 0]
  /\ UNCHANGED << appVars, probe, camera >>

InitRaster == InitApp /\ probe = NoProbe /\ raster \in RasterInputs

NextRaster ==
  \/ ClearViews
  \/ \E frag \in Fragments : ExecuteDraw(frag)
  \/ Present

SpecRaster == InitRaster /\ [][NextRaster]_vars

\* ------------------------------------------------------------------- mouse
\* The client-area coordinates mouse messages arrive with, in pixels.
MouseCoordinates == {0, 300, 600}

\* The button flags of btnState the handlers test.
ButtonStates == SUBSET {"MK_LBUTTON", "MK_RBUTTON"}

\* 0.1 and pi - 0.1 radians in units of pi/72000, to the nearest unit.
PhiMin == 2292

PhiMax == 72000 - 2292

\* 5.0 and 150.0 in units of 0.2.
RadiusMin == 25

RadiusMax == 750

\* MathHelper::Clamp without the upper limit.
ClampBelow(x, low, high) == IF x < low THEN low ELSE x

\* MathHelper::Clamp
Clamp(x, low, high) == IF x < low THEN low ELSE IF x > high THEN high ELSE x

OnMouseDown(btnState, x, y) ==
  /\ camera' = [camera EXCEPT !.mLastMousePos = [x |-> x, y |-> y, assigned |-> TRUE]]
  /\ UNCHANGED << appVars, probe, raster >>

\* What reading mLastMousePos yields: the position stored by the latest
\* handler, or any value while no handler has stored one yet.
LastMousePos ==
  IF camera.mLastMousePos.assigned
    THEN {camera.mLastMousePos}
    ELSE {[x |-> lastX, y |-> lastY, assigned |-> FALSE] :
            lastX \in MouseCoordinates, lastY \in MouseCoordinates}

\* The camera fields after OnMouseMove(btnState, x, y) that read last from
\* mLastMousePos.
MouseMoved(btnState, x, y, last) ==
  LET turned == [camera EXCEPT
                   !.mTheta = @ + 100 * (x - last.x),
                   !.mPhi = Clamp(@ + 100 * (y - last.y), PhiMin, PhiMax)]
      zoomed == [camera EXCEPT
                   !.mRadius = Clamp(@ + (x - last.x) - (y - last.y),
                                     RadiusMin, RadiusMax)]
      moved == IF "MK_LBUTTON" \in btnState THEN turned
               ELSE IF "MK_RBUTTON" \in btnState THEN zoomed
               ELSE camera
  IN  [moved EXCEPT !.mLastMousePos = [x |-> x, y |-> y, assigned |-> TRUE]]

OnMouseMove(btnState, x, y, last) ==
  /\ MouseMoved(btnState, x, y, last).mTheta \in 0 .. MaxTheta
  /\ camera' = MouseMoved(btnState, x, y, last)
  /\ UNCHANGED << appVars, probe, raster >>

NextMouse ==
  \/ \E btnState \in ButtonStates, x, y \in MouseCoordinates : OnMouseDown(btnState, x, y)
  \/ \E btnState \in ButtonStates, x, y \in MouseCoordinates, last \in LastMousePos :
       OnMouseMove(btnState, x, y, last)

SpecMouse == Init /\ [][NextMouse]_vars

\* ================================================================== claims
\* Slot s holds a fence value the GPU has not reached.
SlotBusy(s) == Fence[s] # 0 /\ Fence[s] > completedValue

\* The step in which Update copies into the current slot's constant buffers.
UpdateWrites == pc = "FenceWait" /\ pc' = "Draw"

\* The step in which Draw resets the current slot's allocator and submits.
DrawSubmits == pc = "Draw" /\ pc' = "Update"

\* C1: the CPU writes a slot's object, material and pass constant buffers
\* (Update) and resets its command allocator (Draw) only while the slot's
\* stored fence value is zero or already reached by the GPU.
C1_FenceGating ==
  [][(UpdateWrites \/ DrawSubmits) => ~SlotBusy(mCurrFrameResource)]_vars

\* A slot used by an earlier frame is about to be drawn into again while the
\* GPU still works on other frames.
C1_Witness ==
  /\ pc = "Draw"
  /\ Fence[mCurrFrameResource] # 0
  /\ ObjectCB[mCurrFrameResource][0].written
  /\ mCommandQueue # <<>>

\* The object constants the current slot holds for item i are the ones
\* UpdateObjectCBs builds from the item's present World.
SlotHoldsWorld(s, i) == ObjectCB[s][ObjCBIndex[i]] = ObjectConstants(World[i])

\* C2: when Draw starts, the current slot's object constants of every render
\* item, at the item's ObjCBIndex, are those of the item's current World; no
\* draw reads what an older transform left there.
C2_DrawReadsCurrentWorld ==
  pc = "Draw" => \A i \in Items : SlotHoldsWorld(mCurrFrameResource, i)

\* Draw starts for a slot that was last written two or more frames ago for a
\* skull that has moved and is now deselected and clean.
C2_Witness ==
  /\ pc = "Draw"
  /\ \E k \in SkullIndices :
       /\ k # mSelectedItemIndex
       /\ NumFramesDirty[mSkulls[k + 1]] = 0
       /\ mSkullTranslations[k + 1] # InitSkullTranslations[k + 1]

FaceSequenceAt(log, n, side) ==
  /\ n + 2 <= Len(log)
  /\ log[n].layer = MirrorsLayer(side)
  /\ log[n].pso = "markStencilMirrors" /\ log[n].stencilRef = 1
  /\ log[n + 1].layer = ReflectedLayer(side)
  /\ log[n + 1].pso = "drawStencilReflections"
  /\ log[n + 2].layer = MirrorsLayer(side)
  /\ log[n + 2].pso = "markStencilMirrors" /\ log[n + 2].stencilRef = 0

\* C4: every recorded frame holds, between the Opaque and the Transparent
\* draw, 18 layer draws: for each of the six faces the mark pass (stencil ref
\* 1), the reflection pass and the clear-mark pass (stencil ref 0).
C4_ThreeStepsPerFace ==
  \A s \in Slots :
    CmdListAlloc[s] # <<>> =>
      /\ Len(CmdListAlloc[s]) = 20
      /\ CmdListAlloc[s][1].layer = "Opaque"
      /\ CmdListAlloc[s][20].layer = "Transparent"
      /\ \A side \in Sides :
           \E n \in 2 .. 17 : FaceSequenceAt(CmdListAlloc[s], n, side)

\* C5: in every recorded frame the Opaque layer is drawn with pass constants
\* 0 and the opaque state, each of the six Reflected layers with pass
\* constants 1, stencil ref 1 and the draw-reflection state, and the
\* Transparent layer with pass constants 0, stencil ref 0 and the
\* transparent state; each of these eight layers is drawn.
C5_LayerBindings ==
  \A s \in Slots :
    CmdListAlloc[s] # <<>> =>
      /\ \A l \in {"Opaque", "Transparent"} \cup {ReflectedLayer(side) : side \in Sides} :
           \E n \in 1 .. Len(CmdListAlloc[s]) : CmdListAlloc[s][n].layer = l
      /\ \A n \in 1 .. Len(CmdListAlloc[s]) :
           LET d == CmdListAlloc[s][n]
           IN  /\ d.layer = "Opaque" => d.passCB = 0 /\ d.pso = "opaque"
               /\ (\E side \in Sides : d.layer = ReflectedLayer(side)) =>
                    d.passCB = 1 /\ d.stencilRef = 1 /\ d.pso = "drawStencilReflections"
               /\ d.layer = "Transparent" =>
                    d.passCB = 0 /\ d.stencilRef = 0 /\ d.pso = "transparent"

\* A frame has been recorded into the current slot and submitted.
C5_Witness ==
  /\ pc = "Update"
  /\ mCurrFrameResource # nullptr
  /\ Len(CmdListAlloc[mCurrFrameResource]) > 0
  /\ mCommandQueue # <<>>

\* Frames submitted whose fence value the GPU has not completed.
FramesInFlight == mCurrentFence - completedValue

\* C6 as stated: at most ringDepth - 1 = 2 submitted frames are incomplete.
C6_AtMostTwoInFlight == FramesInFlight <= gNumFrameResources - 1

\* C6 amended: at most ringDepth = 3 submitted frames are incomplete.
C6_AtMostRingDepthInFlight == FramesInFlight <= gNumFrameResources

\* Three frames are in flight and Update is held at the fence test.
C6_Witness ==
  /\ FramesInFlight = gNumFrameResources
  /\ Len(mCommandQueue) = gNumFrameResources
  /\ pc = "FenceWait"
  /\ ~FenceReached(Fence[mCurrFrameResource], completedValue)

\* Frames submitted so far.
FramesDrawn == mCurrentFence - InitialFence

\* C7: the n-th Update selects slot n mod 3, the next Update a different
\* slot, and the Draw that follows an Update submits the slot that Update
\* selected (so frame n's fence is stored in slot n mod 3).
C7_SlotOfFrame ==
  /\ [](/\ pc = "Update" => mCurrFrameResourceIndex = FramesDrawn % gNumFrameResources
        /\ pc # "Update" =>
             /\ mCurrFrameResourceIndex = (FramesDrawn + 1) % gNumFrameResources
             /\ mCurrFrameResource = mCurrFrameResourceIndex
        /\ \A s \in Slots :
             Fence[s] # 0 => (Fence[s] - InitialFence) % gNumFrameResources = s
        /\ \A n \in 1 .. Len(mCommandQueue) :
             mCommandQueue[n].slot
               = (mCommandQueue[n].fence - InitialFence) % gNumFrameResources)
  /\ [][/\ pc = "Update" /\ pc' = "FenceWait" =>
             mCurrFrameResourceIndex' # mCurrFrameResourceIndex
        /\ DrawSubmits =>
             /\ mCurrFrameResource' = mCurrFrameResource
             /\ Fence'[mCurrFrameResource] # Fence[mCurrFrameResource]
             /\ \A s \in Slots \ {mCurrFrameResource} : Fence'[s] = Fence[s]]_vars

\* The fourth frame has been submitted from slot 1, three frames after the
\* first.
C7_Witness ==
  /\ FramesDrawn = 4
  /\ Fence[1] = InitialFence + 4
  /\ pc = "Update"

\* The slot the last submitted frame used.
LastDrawnSlot ==
  IF pc = "Update" THEN mCurrFrameResourceIndex
  ELSE (mCurrFrameResourceIndex + gNumFrameResources - 1) % gNumFrameResources

\* C8: each submission raises the fence counter by exactly 1, stores the new
\* value in the slot just used and signals it on the queue; the counter never
\* decreases, no slot's value exceeds it, nonzero values of different slots
\* differ and the slot last used holds the largest.
C8_FenceCounter ==
  /\ [][/\ mCurrentFence' >= mCurrentFence
        /\ DrawSubmits =>
             /\ mCurrentFence' = mCurrentFence + 1
             /\ Fence'[mCurrFrameResource] = mCurrentFence'
             /\ mCommandQueue' # <<>>
             /\ mCommandQueue'[Len(mCommandQueue')].fence = mCurrentFence']_vars
  /\ [](/\ \A s \in Slots : Fence[s] <= mCurrentFence
        /\ \A s, t \in Slots : s # t /\ Fence[s] # 0 => Fence[s] # Fence[t]
        /\ FramesDrawn > 0 =>
             /\ Fence[LastDrawnSlot] = mCurrentFence
             /\ \A s \in Slots : Fence[s] <= Fence[LastDrawnSlot])

\* Every slot has been used and the last one used holds the counter's value.
C8_Witness ==
  /\ \A s \in Slots : Fence[s] # 0
  /\ Fence[LastDrawnSlot] = mCurrentFence
  /\ mCurrentFence = InitialFence + 4

\* The room the mirrors enclose, from the mirror vertices of the room
\* geometry: x and y in -4 .. 4, z in 0 .. 8.
RoomMin == <<-4, -4, 0>>

RoomMax == <<4, 4, 8>>

\* The axis perpendicular to a face, and whether the face is the upper one.
FaceAxis(side) == IF side \in {"Left", "Right"} THEN 1
                  ELSE IF side \in {"Top", "Bottom"} THEN 2 ELSE 3

FaceIsUpper(side) == side \in {"Right", "Top", "Back"}

\* Coordinate v is strictly past the wall of the face, away from the room.
PastFace(v, side) ==
  IF FaceIsUpper(side) THEN v > RoomMax[FaceAxis(side)] ELSE v < RoomMin[FaceAxis(side)]

\* Coordinate v is n units past the wall of the face.
UnitsPastFace(v, side, n) ==
  IF FaceIsUpper(side) THEN v = RoomMax[FaceAxis(side)] + n
  ELSE v = RoomMin[FaceAxis(side)] - n

\* M is the product of a matrix with the zero scaling.
Collapsed(M) == M.c = Zero3 /\ M.t = Zero3

\* C9: the reflected copy is collapsed exactly when the composed translation
\* coordinate perpendicular to the face is strictly past the face's constant;
\* a coordinate equal to the constant is kept as composed, one unit past it is
\* collapsed.
C9_VisibilityClamp ==
  probe.applied =>
    LET v == probe.composed.t[FaceAxis(probe.side)]
    IN  /\ Collapsed(probe.world) <=> PastFace(v, probe.side)
        /\ ~PastFace(v, probe.side) => probe.world = probe.composed
        /\ UnitsPastFace(v, probe.side, 0) => probe.world = probe.composed
        /\ UnitsPastFace(v, probe.side, 1) => Collapsed(probe.world)

\* A copy whose coordinate equals the constant of its face was composed and
\* kept.
C9_Witness ==
  /\ probe.applied
  /\ UnitsPastFace(probe.composed.t[FaceAxis(probe.side)], probe.side, 0)
  /\ ~Collapsed(probe.world)
  /\ probe.composed.c # One3

MovementKeys == {"A", "D", "W", "S", "Q", "E"}

\* C10: a frame with 'A' as the only movement key held lowers the z
\* translation of the selected skull's World by exactly 2*dt and leaves x and
\* y; the six reflected copies are recomputed from the new World and the
\* dirty counters of the skull and the copies are set to ringDepth.
C10_AKeyMovesSkull ==
  [][\A keys \in KeySets, dt \in DeltaTimes :
       (keys \cap MovementKeys = {"A"} /\ OnKeyboardInput(keys, dt)) =>
         LET skull == mSkulls[mSelectedItemIndex' + 1]
         IN  /\ World'[skull].t = << World[skull].t[1], World[skull].t[2],
                                     World[skull].t[3] - 2 * dt >>
             /\ NumFramesDirty'[skull] = gNumFrameResources
             /\ \A side \in Sides :
                  LET copy == mReflectedSkulls(side, mSelectedItemIndex')
                  IN  /\ World'[copy] = ReflectedWorld(World'[skull], side)
                      /\ NumFramesDirty'[copy] = gNumFrameResources]_vars

\* C11: when Models/skull.txt cannot be opened the user is notified and the
\* failure is not fatal: the program does not crash, and no item that a later
\* step reads its mesh through is left with a null mesh.
C11_MissingSkullFileNonFatal ==
  fin = "fail" =>
    /\ messageBox # <<>>
    /\ messageBox[1] = "Models/skull.txt not found."
    /\ pc # "Crashed"
    /\ \A i \in DOMAIN Geo : Geo[i] # nullGeo

\* C12: a call that reported failure (in a run whose skull file opened) has
\* led to the abort path: the exception reached WinMain, the "HR Failed" box
\* was shown and the process exited; no failure is dropped with the program
\* going on.
C12_FailureAborts ==
  hr # "S_OK" /\ fin = "closed" =>
    /\ pc = "Exit"
    /\ messageBox # <<>>
    /\ messageBox[Len(messageBox)] = "HR Failed"

\* C13: the ObjCBIndex values of the render items are pairwise distinct, and
\* no step of the frame loop (key input, Update, Draw) changes any of them.
C13_ObjCBIndexUniqueStable ==
  /\ [](\A i, j \in Items : i # j => ObjCBIndex[i] # ObjCBIndex[j])
  /\ [][ObjCBIndex' = ObjCBIndex]_vars

\* Frames have been drawn, a skull has been moved, and the last items
\* created still hold the last indices handed out.
C13_Witness ==
  /\ FramesDrawn >= 2
  /\ mSkullTranslations # InitSkullTranslations
  /\ ObjCBIndex[mShadowedSkullRitem] = 16
  /\ ObjCBIndex[MirrorItem("Bottom")] = Len(mAllRitems) - 1

\* C14: for every face, the reflection through the face's plane applied
\* twice, and the face's mirror map (reflection, then offset) applied twice,
\* both give back the transform they started from.
C14_ReflectionInvolutive ==
  probe.applied =>
    /\ probe.reflectedTwice = SkullWorld(probe.translation)
    /\ probe.composedTwice = SkullWorld(probe.translation)

\* A face with a nonzero offset has mapped a position off its plane to a
\* different position, and back.
C14_Witness ==
  /\ probe.applied
  /\ FindMirrorOffset(probe.side).t # Zero3
  /\ probe.composed.t # probe.translation
  /\ probe.composedTwice.t = probe.translation

\* C15: Update copies an item's object constants only while its counter is
\* nonzero, and a counter is raised only in a frame that changed the item's
\* transform (so that counters run down to 0 once nothing moves).
C15_DirtyOnlyOnChange ==
  [][/\ UpdateWrites =>
          \A i \in Items :
            NumFramesDirty[i] = 0 =>
              ObjectCB'[mCurrFrameResource][ObjCBIndex[i]]
                = ObjectCB[mCurrFrameResource][ObjCBIndex[i]]
     /\ \A i \in Items :
          NumFramesDirty'[i] > NumFramesDirty[i] => World'[i] # World[i]]_vars

\* Position n of the queue holds the oldest submitted frame that used slot s.
OldestOfSlot(n, s) ==
  /\ mCommandQueue[n].slot = s
  /\ \A m \in 1 .. (n - 1) : mCommandQueue[m].slot # s

\* C16: while Update is held at the fence test, the value it waits for is at
\* most the fence counter and is the value queued for signalling with the
\* oldest unfinished frame of the current slot; with a GPU that goes on
\* executing, every Update held or not goes on to Draw and every frame up to
\* the last one followed is submitted.
C16_FenceWaitEnds ==
  /\ [](InWaitBranch =>
          /\ Fence[mCurrFrameResource] <= mCurrentFence
          /\ \E n \in 1 .. Len(mCommandQueue) :
               /\ mCommandQueue[n].fence = Fence[mCurrFrameResource]
               /\ OldestOfSlot(n, mCurrFrameResource))
  /\ (pc = "FenceWait" ~> pc = "Draw")
  /\ <>(mCurrentFence = MaxFence)

\* Update is held for the frame at the head of the queue while the two
\* frames submitted after it are queued behind.
C16_Witness ==
  /\ InWaitBranch
  /\ Head(mCommandQueue).fence = Fence[mCurrFrameResource]
  /\ mCommandQueue[Len(mCommandQueue)].fence = mCurrentFence
  /\ Head(mCommandQueue).fence + 2 = mCurrentFence

\* The face a mirror or reflected layer belongs to ("" for the other layers).
FaceOf ==
  [layer \in RenderLayer |->
     IF \E side \in Sides : layer \in {MirrorsLayer(side), ReflectedLayer(side)}
       THEN CHOOSE side \in Sides : layer \in {MirrorsLayer(side), ReflectedLayer(side)}
       ELSE ""]

\* The faces of the draws of a recorded frame, in order.
FacesDrawn(log) == [n \in 1 .. Len(log) |-> FaceOf[log[n].layer]]

\* C17: in every recorded frame the first draw is the Opaque layer and the
\* last is the Transparent layer, neither is drawn anywhere else, every draw
\* between them is a mirror or reflected layer of a face, all six faces
\* occur, and the draws of one face are consecutive.
C17_LayerOrder ==
  \A s \in Slots :
    CmdListAlloc[s] # <<>> =>
      LET log == CmdListAlloc[s]
          last == Len(log)
          face == FacesDrawn(log)
      IN  /\ log[1].layer = "Opaque"
          /\ log[last].layer = "Transparent"
          /\ \A n \in 2 .. (last - 1) : face[n] \in Sides
          /\ \A side \in Sides : \E n \in 2 .. (last - 1) : face[n] = side
          /\ \A a \in 2 .. (last - 1) : \A c \in (a + 2) .. (last - 1) :
               face[a] = face[c] => \A b \in (a + 1) .. (c - 1) : face[b] = face[a]

\* Every slot holds a recorded frame.
C17_Witness ==
  /\ \A s \in Slots : Len(CmdListAlloc[s]) > 2
  /\ FramesDrawn >= gNumFrameResources


\* The layer draw the GPU executes next on the pixel.
NextDraw == RecordedDraws[raster.next]

InFrame == raster.next \in 1 .. Len(RecordedDraws)

\* C18: when the mark pass of any face (markStencilMirrors with stencil
\* reference 1) is about to execute, the pixel's stencil value is not 1:
\* no earlier face has left its mark, whatever depths its reflection wrote.
C18_NoStencilLeftByFace ==
  InFrame /\ NextDraw.pso = "markStencilMirrors" /\ NextDraw.stencilRef = 1
    => raster.stencil # 1

\* The step executes a layer draw under the given pipeline state.
Executes(pso) == InFrame /\ NextDraw.pso = pso /\ raster'.next = raster.next + 1

\* C19: a draw under markStencilMirrors leaves the pixel's colour and depth
\* as they were, and sets its stencil value to the stencil reference if the
\* mirror quad covers the pixel and its fragment passes the depth test, and
\* leaves the stencil value alone otherwise.
C19_MarkChangesOnlyStencil ==
  [][ Executes("markStencilMirrors") =>
        LET f == raster.mirror[FaceOf[NextDraw.layer]]
        IN  /\ raster'.colour = raster.colour
            /\ raster'.depth = raster.depth
            /\ raster'.stencil = IF f # NoFragment /\ f < raster.depth
                                   THEN NextDraw.stencilRef
                                   ELSE raster.stencil ]_vars

\* The Front mark pass has just set the stencil of a pixel whose colour and
\* depth the Opaque draw wrote, and the mirror lies behind no skull there.
C19_Witness ==
  /\ raster.next = 3
  /\ raster.stencil = 1
  /\ raster.colour = <<"Opaque">>
  /\ raster.depth < MaxDepth
  /\ raster.mirror["Front"] < raster.depth
  /\ raster.markedBy = "Front"

\* C20: a draw under drawStencilReflections changes the pixel's colour only
\* if the stencil value equals the stencil reference 1 and the pixel was
\* marked by the mark pass of the face being drawn, and it never changes
\* the stencil value.
C20_ReflectionMasked ==
  [][ Executes("drawStencilReflections") =>
        /\ raster'.colour # raster.colour =>
             /\ raster.stencil = NextDraw.stencilRef
             /\ NextDraw.stencilRef = 1
             /\ raster.markedBy = FaceOf[NextDraw.layer]
        /\ raster'.stencil = raster.stencil ]_vars


\* C21: for every face, a reflected copy that is not collapsed lies at the
\* mirror image of its skull across the wall of the room geometry the
\* face's mirror quad lies in: the coordinate perpendicular to the wall is
\* mirrored about the wall (with the copy's linear part flipped along it)
\* and the other two coordinates are those of the skull.
C21_MirrorImageAcrossWall ==
  probe.applied /\ probe.world.c # Zero3 =>
    LET wall == WallPlane[probe.side]
    IN  \A a \in 1 .. 3 :
          IF a = wall.axis
            THEN /\ probe.world.t[a] = 2 * wall.at - probe.translation[a]
                 /\ probe.world.c[a] = -1
            ELSE /\ probe.world.t[a] = probe.translation[a]
                 /\ probe.world.c[a] = 1

\* A skull outside the room behind the Back wall, off the axes, has been
\* mirrored into the room across z = 8.
C21_Witness ==
  /\ probe.applied
  /\ probe.side = "Back"
  /\ WallPlane["Back"] = [axis |-> 3, at |-> 8]
  /\ probe.translation = <<1, -2, 9>>
  /\ probe.world.t = <<1, -2, 7>>
  /\ probe.world.c = <<1, 1, -1>>


\* A vector mirrored through the plane z = 0.
MirroredThroughXY(v) == <<v[1], v[2], -v[3]>>

C23_CameraLimits ==
  /\ [](/\ camera.mRadius >= RadiusMin /\ camera.mRadius <= RadiusMax
        /\ camera.mPhi >= PhiMin /\ camera.mPhi <= PhiMax)
  /\ [][ \A btnState \in ButtonStates, x, y \in MouseCoordinates, last \in LastMousePos :
           camera' = MouseMoved(btnState, x, y, last) =>
             /\ "MK_LBUTTON" \in btnState => camera'.mRadius = camera.mRadius
             /\ "MK_RBUTTON" \in btnState /\ "MK_LBUTTON" \notin btnState =>
                  camera'.mTheta = camera.mTheta /\ camera'.mPhi = camera.mPhi
             /\ btnState = {} =>
                  /\ camera'.mRadius = camera.mRadius
                  /\ camera'.mTheta = camera.mTheta
                  /\ camera'.mPhi = camera.mPhi ]_vars

\* Drags have taken the radius to its upper and the polar angle to its
\* lower limit and turned the camera.
C23_Witness ==
  /\ camera.mRadius = RadiusMax
  /\ camera.mPhi = PhiMin
  /\ camera.mTheta # InitCamera.mTheta
  /\ camera.mLastMousePos.assigned


\* C24: once the render items are built from a skull file that was read,
\* every item placed in a layer has a nonzero index count, taken from a
\* submesh its mesh defined; and BuildRenderItems leaves the submesh table
\* of every mesh as the geometry builders filled it.
C24_ItemsDrawDefinedSubmeshes ==
  /\ [](fin = "closed" /\ IndexCount # <<>> =>
          \A l \in RenderLayer : \A n \in 1 .. Len(mRitemLayer[l]) :
            IndexCount[mRitemLayer[l][n]] # 0)
  /\ [][pc = "BuildRenderItems" /\ pc' = "BuildFrameResources" /\ fin = "closed" =>
          DrawArgs' = DrawArgs]_vars


\* C25: once OnKeyboardInput has run, every skull has a shadow item of its
\* own in the Shadow layer whose world transform is the shadow projection,
\* along the negated direction of the main light, of that skull's current
\* world transform.
C25_ShadowPerSkull ==
  pc = "FenceWait" =>
    /\ Len(mRitemLayer["Shadow"]) = Len(mSkulls)
    /\ \A k \in SkullIndices :
         World[mRitemLayer["Shadow"][k + 1]]
           = ShadowWorld(World[mSkulls[k + 1]], Negate(mMainPassCB.Lights[1].Direction))


\* C26: the ObjCBIndex values of the render items are exactly the indices
\* 0 .. N-1 of the per-object buffer of every slot, N being the number of
\* render items; every material's MatCBIndex is an index of the material
\* buffer and below the material count; every material's
\* DiffuseSrvHeapIndex is below the size of the descriptor heap; and the
\* pass elements Update writes (0 and 1) and every recorded draw binds are
\* indices of the pass buffer, below the pass count.
C26_IndicesInBounds ==
  /\ {ObjCBIndex[i] : i \in Items} = 0 .. (Len(mAllRitems) - 1)
  /\ \A s \in Slots :
       /\ DOMAIN ObjectCB[s] = {ObjCBIndex[i] : i \in Items}
       /\ \A m \in Materials : MatCBIndex[m] \in DOMAIN MaterialCB[s]
       /\ {0, 1} \subseteq DOMAIN PassCB[s]
       /\ \A x \in DOMAIN PassCB[s] : x < passCount
       /\ \A n \in 1 .. Len(CmdListAlloc[s]) : CmdListAlloc[s][n].passCB \in DOMAIN PassCB[s]
  /\ \A m \in Materials :
       /\ MatCBIndex[m] >= 0 /\ MatCBIndex[m] < Cardinality(Materials)
       /\ DiffuseSrvHeapIndex[m] >= 0 /\ DiffuseSrvHeapIndex[m] < NumDescriptors

\* Update has written the last element of each buffer of slot 1 and frames
\* drawn from every slot are recorded.
C26_Witness ==
  /\ ObjectCB[1][Len(mAllRitems) - 1].written
  /\ MaterialCB[1][Cardinality(Materials) - 1].written
  /\ PassCB[1][passCount - 1].written
  /\ \A s \in Slots : Len(CmdListAlloc[s]) > 0
  /\ \E i \in Items : ObjCBIndex[i] = Len(mAllRitems) - 1


\* C27: whenever Draw is about to run, the world transform of every
\* skull's reflected copy for every face is the mirror composition
\* (reflect, offset, visibility clamp) of that skull's world transform.
C27_CopiesMirrorTheirSkull ==
  pc = "Draw" =>
    \A k \in SkullIndices : \A side \in Sides :
      World[mReflectedSkulls(side, k)] = ReflectedWorld(World[mSkulls[k + 1]], side)


\* C28: a frame whose poll holds a digit key that changes the selection and
\* no movement key leaves the world transform of every skull as it was.
C28_SelectionKeepsWorld ==
  [][\A keys \in KeySets, dt \in DeltaTimes :
       (/\ keys \cap MovementKeys = {}
        /\ Selected(keys, mSelectedItemIndex) # mSelectedItemIndex
        /\ OnKeyboardInput(keys, dt)) =>
         \A k \in SkullIndices : World'[mSkulls[k + 1]] = World[mSkulls[k + 1]]]_vars


\* The items that belong to skull k: the skull and its six reflected copies.
OfSkull(k) == {mSkulls[k + 1]} \cup {mReflectedSkulls(side, k) : side \in Sides}

\* C29: the selected index is always an index of mSkulls and of every face's
\* list of reflected copies, and the keyboard step of a frame leaves the
\* translation of the skull that is not selected, and the World and
\* NumFramesDirty of that skull, of its reflected copies and of every room
\* and mirror item as they were.
C29_InputTouchesSelectedOnly ==
  /\ [](/\ mSelectedItemIndex \in SkullIndices
        /\ \A side \in Sides : mSelectedItemIndex \in DOMAIN ReflectedNames[side])
  /\ [][pc = "Update" /\ pc' = "FenceWait" =>
          /\ \A k \in SkullIndices \ {mSelectedItemIndex'} :
               mSkullTranslations'[k + 1] = mSkullTranslations[k + 1]
          /\ \A i \in Items \ (OfSkull(mSelectedItemIndex') \cup {mShadowedSkullRitem}) :
               /\ World'[i] = World[i]
               /\ NumFramesDirty'[i] = NumFramesDirty[i]]_vars

\* The second skull was selected and moved while the first skull, never
\* selected since the build, has had its constants written to every slot.
C29_Witness ==
  /\ pc = "FenceWait"
  /\ mSelectedItemIndex = 1
  /\ mSkullTranslations[2] # InitSkullTranslations[2]
  /\ mSkullTranslations[1] = InitSkullTranslations[1]
  /\ World[mSkulls[1]] = InitWorld[mSkulls[1]]
  /\ World[mSkulls[2]] = SkullWorld(mSkullTranslations[2])
  /\ NumFramesDirty[mSkulls[1]] = 0
  /\ NumFramesDirty[mSkulls[2]] = gNumFrameResources


\* The face on the other side of the room.
OppositeFace ==
  [side \in Sides |->
     CASE side = "Front" -> "Back" [] side = "Back" -> "Front"
       [] side = "Left" -> "Right" [] side = "Right" -> "Left"
       [] side = "Top" -> "Bottom" [] side = "Bottom" -> "Top"]

\* The faces whose reflected copy of a skull at translation tr is not collapsed.
NonCollapsedFaces(tr) ==
  {side \in Sides : ~Collapsed(ReflectedWorld(SkullWorld(tr), side))}

\* The translation lies strictly inside the room.
StrictlyInside(tr) ==
  /\ RoomMin[1] < tr[1] /\ tr[1] < RoomMax[1]
  /\ RoomMin[2] < tr[2] /\ tr[2] < RoomMax[2]
  /\ RoomMin[3] < tr[3] /\ tr[3] < RoomMax[3]

\* C30: for a skull moved to any translation, the reflected copies of two
\* opposite faces are never both non-collapsed, so at most 3 of the 6 copies
\* are non-collapsed; strictly inside the room all six are collapsed.
C30_OppositeFacesExclusive ==
  probe.applied =>
    /\ ~Collapsed(probe.world) =>
         Collapsed(ReflectedWorld(SkullWorld(probe.translation), OppositeFace[probe.side]))
    /\ \A side \in Sides :
         ~(side \in NonCollapsedFaces(probe.translation)
           /\ OppositeFace[side] \in NonCollapsedFaces(probe.translation))
    /\ Cardinality(NonCollapsedFaces(probe.translation)) <= 3
    /\ StrictlyInside(probe.translation) => NonCollapsedFaces(probe.translation) = {}

\* A skull beyond a corner of the room: the copies of the three faces that
\* meet there are non-collapsed, those of the three opposite faces collapsed.
C30_Witness ==
  /\ probe.applied
  /\ probe.side = "Back"
  /\ probe.translation = <<-5, 5, 9>>
  /\ ~Collapsed(probe.world)
  /\ NonCollapsedFaces(probe.translation) = {"Back", "Left", "Top"}

====
